---------------------------- MODULE Spec2Model ----------------------------
(***************************************************************************)
(* A model of seisbench/models/phasenet.py.                                *)
(*                                                                         *)
(*   SpecNet   the shape arithmetic of PhaseNet.forward, one step per      *)
(*             line of the method; a tensor is its (channels, length).     *)
(*   SpecConv  Conv1dSame on its own, for any kernel/stride/dilation.      *)
(*   SpecPre   annotate_window_pre on small windows, in a binary floating   *)
(*             point of reduced precision.                                 *)
(*   SpecPick  classify_aggregate on small annotation streams.             *)
(***************************************************************************)
EXTENDS Integers, Sequences, FiniteSets, TLC

VARIABLES
    \* ---- PhaseNet instance and one forward pass
    in_channels,        \* self.in_channels
    classes,            \* self.classes
    input,              \* shape of the tensor given to forward
    pc,                 \* position in forward
    x,                  \* the tensor named x in forward
    x_in, x1, x2, x3, x4,   \* the retained encoder tensors
    cats,               \* the torch.cat calls made so far
    \* ---- one Conv1dSame instance and one call of its forward
    conv,               \* the constructed module
    conv_in,            \* input time length
    conv_out,           \* output time length
    conv_pc,
    \* ---- annotate_window_pre
    window,             \* channels x samples
    pre_out,            \* what annotate_window_pre returned
    pre_pc,
    \* ---- classify_aggregate
    labels,             \* self.labels
    argdict,
    annotations,        \* the stream: a sequence of traces
    picks,              \* the returned list
    calls,              \* the calls made to trigger_onset
    pick_pc

netvars  == <<in_channels, classes, input, pc, x, x_in, x1, x2, x3, x4, cats>>
convvars == <<conv, conv_in, conv_out, conv_pc>>
prevars  == <<window, pre_out, pre_pc>>
pickvars == <<labels, argdict, annotations, picks, calls, pick_pc>>
vars     == <<netvars, convvars, prevars, pickvars>>

(***************************************************************************)
(* Bounds of the model.                                                    *)
(***************************************************************************)
MaxLen      == 3300     \* input time lengths 1..MaxLen
MaxChannels == 3        \* channel counts 1..MaxChannels
MaxClasses  == 3        \* classes 2..MaxClasses
MaxKernel   == 8        \* Conv1dSame kernel sizes 1..MaxKernel
MaxStride   == 4
MaxDilation == 4
MaxConvLen  == 12       \* Conv1dSame input lengths 1..MaxConvLen
Prec        == 3        \* significand bits of the floating-point format
NCh         == 2        \* channels of a window
NSamp       == 3        \* samples of a window
MaxSample   == 6        \* largest sample value
MaxTraces   == 2        \* traces in an annotation stream

(***************************************************************************)
(* Integer helpers.                                                        *)
(***************************************************************************)
\* math.ceil(a / 2) for an integer a of either sign
CeilHalf(a) == -((-a) \div 2)

\* floor(a / b) for b > 0 and a of either sign
FloorDiv(a, b) == IF a >= 0 THEN a \div b ELSE -(((-a) + b - 1) \div b)

(***************************************************************************)
(* torch.nn.Conv1d and torch.nn.ConvTranspose1d: output time length.       *)
(***************************************************************************)
Conv1dLen(L, ks, st, pad, dil) ==
    FloorDiv(L + 2 * pad - dil * (ks - 1) - 1, st) + 1

ConvTranspose1dLen(L, ks, st, pad, outpad) ==
    (L - 1) * st - 2 * pad + (ks - 1) + outpad + 1

(***************************************************************************)
(* Conv1dSame.__init__ and Conv1dSame.forward.                             *)
(***************************************************************************)
Conv1dSame(ic, oc, ks, st, dil) ==
    [ in_channels      |-> ic,
      out_channels     |-> oc,
      kernel_size      |-> ks,
      stride           |-> st,
      dilation         |-> dil,
      cut_last_element |-> (ks % 2 = 0 /\ st = 1 /\ dil % 2 = 1),
      padding          |-> CeilHalf(1 - st + dil * (ks - 1)) ]

\* time length of self.conv(x): the inner Conv1d has padding self.padding + 1
Conv1dSameConvLen(m, L) ==
    Conv1dLen(L, m.kernel_size, m.stride, m.padding + 1, m.dilation)

\* time length of Conv1dSame.forward(x)
Conv1dSameForwardLen(m, L) ==
    IF m.cut_last_element
    THEN (IF Conv1dSameConvLen(m, L) > 0 THEN Conv1dSameConvLen(m, L) - 1 ELSE 0)
    ELSE Conv1dSameConvLen(m, L)

(***************************************************************************)
(* PhaseNet.__init__: the layers.                                          *)
(***************************************************************************)
InSamples   == 3001
kernel_size == 7
stride      == 4

inc   == [in_channels |-> in_channels, out_channels |-> 8, kernel_size |-> 1]
in_bn == 8

conv1 == Conv1dSame(8, 11, kernel_size, stride, 1)
bnd1  == 11
conv2 == Conv1dSame(11, 16, kernel_size, stride, 1)
bnd2  == 16
conv3 == Conv1dSame(16, 22, kernel_size, stride, 1)
bnd3  == 22
conv4 == Conv1dSame(22, 32, kernel_size, stride, 1)
bnd4  == 32

up1 == [in_channels |-> 32, out_channels |-> 22,
        padding |-> conv4.padding, output_padding |-> 0]
bnu1 == 22
up2_in32 == [in_channels |-> 32, out_channels |-> 16,
             padding |-> conv3.padding, output_padding |-> 1]
up2_no_output_padding == [in_channels |-> 44, out_channels |-> 16,
                          padding |-> conv3.padding, output_padding |-> 0]
up2 == [in_channels |-> 44, out_channels |-> 16,
        padding |-> conv3.padding, output_padding |-> 1]
bnu2 == 16
up3 == [in_channels |-> 32, out_channels |-> 11,
        padding |-> conv2.padding, output_padding |-> 0]
bnu3 == 11
up4_derived_padding == [in_channels |-> 22, out_channels |-> 8,
                        padding |-> conv1.padding, output_padding |-> 0]
up4 == [in_channels |-> 22, out_channels |-> 8,
        padding |-> 3, output_padding |-> 0]
bnu4 == 8

out == [in_channels |-> 16, out_channels |-> classes, kernel_size |-> 1]

(***************************************************************************)
(* Tensors are (channels, length); a failed call is the tensor Failed.     *)
(***************************************************************************)
Failed == [c |-> 0, l |-> 0]

Tensor(c, l) == [c |-> c, l |-> l]

\* nn.Conv1d(in, out, 1) on t
PointConv(layer, t) ==
    IF t.c # layer.in_channels \/ t.l < 1 THEN Failed
    ELSE Tensor(layer.out_channels, Conv1dLen(t.l, layer.kernel_size, 1, 0, 1))

\* nn.BatchNorm1d(num_features) followed by the activation
BatchNorm(num_features, t) ==
    IF t = Failed \/ t.c # num_features THEN Failed ELSE t

\* Conv1dSame.forward on t
Down(m, t) ==
    IF t.c # m.in_channels \/ Conv1dSameConvLen(m, t.l) < 1 THEN Failed
    ELSE Tensor(m.out_channels, Conv1dSameForwardLen(m, t.l))

\* nn.ConvTranspose1d(in, out, kernel_size, stride, padding, output_padding) on t
Up(layer, t) ==
    IF t.c # layer.in_channels
       \/ ConvTranspose1dLen(t.l, kernel_size, stride, layer.padding,
                             layer.output_padding) < 1
    THEN Failed
    ELSE Tensor(layer.out_channels,
                ConvTranspose1dLen(t.l, kernel_size, stride, layer.padding,
                                   layer.output_padding))

\* nn.ConvTranspose1d(in, out, 1) on t
PointConvTranspose(layer, t) ==
    IF t.c # layer.in_channels THEN Failed
    ELSE Tensor(layer.out_channels,
                ConvTranspose1dLen(t.l, layer.kernel_size, 1, 0, 0))

\* torch.cat([a, b], dim=1)
Cat(a, b) ==
    IF a = Failed \/ a.l # b.l THEN Failed ELSE Tensor(a.c + b.c, a.l)

(***************************************************************************)
(* PhaseNet.forward, one action per line.  A step whose layer cannot       *)
(* reconcile the dimensions raises: the pass ends at pc = "error".         *)
(***************************************************************************)
Idle == "idle"

NetIdle ==
    /\ in_channels = 0 /\ classes = 0 /\ input = Failed /\ pc = Idle
    /\ x = Failed /\ x_in = Failed /\ x1 = Failed /\ x2 = Failed
    /\ x3 = Failed /\ x4 = Failed /\ cats = <<>>

NetInit ==
    /\ in_channels \in 1..MaxChannels
    /\ classes \in 2..MaxClasses
    /\ input \in [c : 1..MaxChannels, l : 1..MaxLen]
    /\ pc = "inc"
    /\ x = input
    /\ x_in = Failed /\ x1 = Failed /\ x2 = Failed /\ x3 = Failed /\ x4 = Failed
    /\ cats = <<>>

Raise == pc' = "error"

\* x_in = self.activation(self.in_bn(self.inc(x)))
Inc ==
    /\ pc = "inc"
    /\ LET t == BatchNorm(in_bn, PointConv(inc, x)) IN
       IF t = Failed
       THEN Raise /\ UNCHANGED <<x_in>>
       ELSE x_in' = t /\ pc' = "conv1"
    /\ UNCHANGED <<in_channels, classes, input, x, x1, x2, x3, x4, cats>>
    /\ UNCHANGED <<convvars, prevars, pickvars>>

\* x1 = self.activation(self.bnd1(self.conv1(x_in)))
Conv1 ==
    /\ pc = "conv1"
    /\ LET t == BatchNorm(bnd1, Down(conv1, x_in)) IN
       IF t = Failed
       THEN Raise /\ UNCHANGED <<x1>>
       ELSE x1' = t /\ pc' = "conv2"
    /\ UNCHANGED <<in_channels, classes, input, x, x_in, x2, x3, x4, cats>>
    /\ UNCHANGED <<convvars, prevars, pickvars>>

\* x2 = self.activation(self.bnd2(self.conv2(x1)))
Conv2 ==
    /\ pc = "conv2"
    /\ LET t == BatchNorm(bnd2, Down(conv2, x1)) IN
       IF t = Failed
       THEN Raise /\ UNCHANGED <<x2>>
       ELSE x2' = t /\ pc' = "conv3"
    /\ UNCHANGED <<in_channels, classes, input, x, x_in, x1, x3, x4, cats>>
    /\ UNCHANGED <<convvars, prevars, pickvars>>

\* x3 = self.activation(self.bnd3(self.conv3(x2)))
Conv3 ==
    /\ pc = "conv3"
    /\ LET t == BatchNorm(bnd3, Down(conv3, x2)) IN
       IF t = Failed
       THEN Raise /\ UNCHANGED <<x3>>
       ELSE x3' = t /\ pc' = "conv4"
    /\ UNCHANGED <<in_channels, classes, input, x, x_in, x1, x2, x4, cats>>
    /\ UNCHANGED <<convvars, prevars, pickvars>>

\* x4 = self.activation(self.bnd4(self.conv4(x3)))
Conv4 ==
    /\ pc = "conv4"
    /\ LET t == BatchNorm(bnd4, Down(conv4, x3)) IN
       IF t = Failed
       THEN Raise /\ UNCHANGED <<x4>>
       ELSE x4' = t /\ pc' = "up1"
    /\ UNCHANGED <<in_channels, classes, input, x, x_in, x1, x2, x3, cats>>
    /\ UNCHANGED <<convvars, prevars, pickvars>>

\* the record of one torch.cat([upsampled, skip], dim=1)
CatCall(u, name, skip) ==
    [up |-> u, with |-> name, skip |-> skip]

\* x = torch.cat([self.activation(self.bnu1(self.up1(x4))), x3], dim=1)
Up1 ==
    /\ pc = "up1"
    /\ LET u == BatchNorm(bnu1, Up(up1, x4))
           t == Cat(u, x3) IN
       /\ cats' = IF u = Failed THEN cats ELSE Append(cats, CatCall(u, "x3", x3))
       /\ IF t = Failed
          THEN Raise /\ UNCHANGED <<x>>
          ELSE x' = t /\ pc' = "up2"
    /\ UNCHANGED <<in_channels, classes, input, x_in, x1, x2, x3, x4>>
    /\ UNCHANGED <<convvars, prevars, pickvars>>

\* x = torch.cat([self.activation(self.bnu2(self.up2(x))), x2], dim=1)
Up2 ==
    /\ pc = "up2"
    /\ LET u == BatchNorm(bnu2, Up(up2, x))
           t == Cat(u, x2) IN
       /\ cats' = IF u = Failed THEN cats ELSE Append(cats, CatCall(u, "x2", x2))
       /\ IF t = Failed
          THEN Raise /\ UNCHANGED <<x>>
          ELSE x' = t /\ pc' = "up3"
    /\ UNCHANGED <<in_channels, classes, input, x_in, x1, x2, x3, x4>>
    /\ UNCHANGED <<convvars, prevars, pickvars>>

\* x = torch.cat([self.activation(self.bnu3(self.up3(x))), x1], dim=1)
Up3 ==
    /\ pc = "up3"
    /\ LET u == BatchNorm(bnu3, Up(up3, x))
           t == Cat(u, x1) IN
       /\ cats' = IF u = Failed THEN cats ELSE Append(cats, CatCall(u, "x1", x1))
       /\ IF t = Failed
          THEN Raise /\ UNCHANGED <<x>>
          ELSE x' = t /\ pc' = "up4"
    /\ UNCHANGED <<in_channels, classes, input, x_in, x1, x2, x3, x4>>
    /\ UNCHANGED <<convvars, prevars, pickvars>>

\* x = torch.cat([self.activation(self.bnu4(self.up4(x))), x_in], dim=1)
Up4 ==
    /\ pc = "up4"
    /\ LET u == BatchNorm(bnu4, Up(up4, x))
           t == Cat(u, x_in) IN
       /\ cats' = IF u = Failed THEN cats ELSE Append(cats, CatCall(u, "x_in", x_in))
       /\ IF t = Failed
          THEN Raise /\ UNCHANGED <<x>>
          ELSE x' = t /\ pc' = "out"
    /\ UNCHANGED <<in_channels, classes, input, x_in, x1, x2, x3, x4>>
    /\ UNCHANGED <<convvars, prevars, pickvars>>

\* x = self.out(x); x = self.softmax(x); return x
Out ==
    /\ pc = "out"
    /\ LET t == PointConvTranspose(out, x) IN
       IF t = Failed
       THEN Raise /\ UNCHANGED <<x>>
       ELSE x' = t /\ pc' = "done"
    /\ UNCHANGED <<in_channels, classes, input, x_in, x1, x2, x3, x4, cats>>
    /\ UNCHANGED <<convvars, prevars, pickvars>>

forward ==
    Inc \/ Conv1 \/ Conv2 \/ Conv3 \/ Conv4 \/ Up1 \/ Up2 \/ Up3 \/ Up4 \/ Out

(***************************************************************************)
(* One Conv1dSame: construction, then a call of forward.                   *)
(***************************************************************************)
NoConv == [kernel_size |-> 0]

ConvIdle == conv = NoConv /\ conv_in = 0 /\ conv_out = 0 /\ conv_pc = Idle

ConvInit == conv = NoConv /\ conv_in = 0 /\ conv_out = 0 /\ conv_pc = "new"

\* Conv1dSame(in_channels, out_channels, kernel_size, stride, dilation)
ConvConstruct ==
    /\ conv_pc = "new"
    /\ \E ks \in 1..MaxKernel, st \in 1..MaxStride, dil \in 1..MaxDilation :
          conv' = Conv1dSame(1, 1, ks, st, dil)
    /\ conv_pc' = "built"
    /\ UNCHANGED <<conv_in, conv_out>>
    /\ UNCHANGED <<netvars, prevars, pickvars>>

\* Conv1dSame.forward(x) for x of time length L
ConvForward ==
    /\ conv_pc = "built"
    /\ \E L \in 1..MaxConvLen :
          /\ conv_in' = L
          /\ conv_out' = Conv1dSameForwardLen(conv, L)
    /\ conv_pc' = "called"
    /\ UNCHANGED conv
    /\ UNCHANGED <<netvars, prevars, pickvars>>

(***************************************************************************)
(* Floating point.  NumPy computes in IEEE-754 binary floating point with  *)
(* round-to-nearest, ties-to-even.  The model keeps the rounding and       *)
(* shrinks the format: Prec significand bits, gradual underflow, the least *)
(* positive value is 1 (so a value is an integer), and the range is wide   *)
(* enough that the windows of the model never overflow.                    *)
(***************************************************************************)
RECURSIVE BitLen(_)
BitLen(n) == IF n = 0 THEN 0 ELSE 1 + BitLen(n \div 2)

Abs(a) == IF a < 0 THEN -a ELSE a

Sign(a) == IF a < 0 THEN -1 ELSE 1

\* encodings of the non-finite values
PosInf == 2 ^ (Prec + 24)
NegInf == -PosInf
NaN    == PosInf + 1

IsFinite(v) == NegInf < v /\ v < PosInf

\* the float nearest to the rational a / b (b > 0), ties to even
RoundRat(a, b) ==
    LET mag == Abs(a)
        e   == IF BitLen(mag \div b) > Prec THEN BitLen(mag \div b) - Prec ELSE 0
        d   == b * (2 ^ e)
        q   == mag \div d
        r   == mag % d
        up  == IF 2 * r > d \/ (2 * r = d /\ q % 2 = 1) THEN 1 ELSE 0
    IN  Sign(a) * (q + up) * (2 ^ e)

FAdd(a, b) == RoundRat(a + b, 1)
FSub(a, b) == RoundRat(a - b, 1)
FMul(a, b) == RoundRat(a * b, 1)

\* a / b, NumPy's true_divide: x/0 is nan for x = 0 and an infinity otherwise
FDiv(a, b) ==
    IF b = 0 THEN (IF a = 0 THEN NaN ELSE IF a > 0 THEN PosInf ELSE NegInf)
    ELSE RoundRat(a * Sign(b), Abs(b))

RECURSIVE ISqrt(_)
\* floor of the square root
ISqrt(v) ==
    IF v < 2 THEN v
    ELSE LET h == 2 * ISqrt(v \div 4) IN
         IF (h + 1) * (h + 1) <= v THEN h + 1 ELSE h

\* the float nearest to the square root of v >= 0, ties to even
FSqrt(v) ==
    LET s    == ISqrt(v)
        e    == IF BitLen(s) > Prec THEN BitLen(s) - Prec ELSE 0
        step == 2 ^ e
        q    == s \div step
        mid2 == 2 * q * step + step          \* twice the midpoint
        up   == IF 4 * v > mid2 * mid2 \/ (4 * v = mid2 * mid2 /\ q % 2 = 1)
                THEN 1 ELSE 0
    IN  (q + up) * step

RECURSIVE Sum(_)
\* np.add.reduce over one row: each partial sum is rounded
Sum(row) ==
    IF Len(row) = 0 THEN 0
    ELSE IF Len(row) = 1 THEN row[1]
    ELSE FAdd(Sum(SubSeq(row, 1, Len(row) - 1)), row[Len(row)])

\* np.mean(row): the rounded sum divided by the count
Mean(row) == FDiv(Sum(row), Len(row))

\* np.std(row): sqrt(mean(|row - mean(row)| ** 2))
Std(row) ==
    LET m  == Mean(row)
        sq == [i \in DOMAIN row |-> FMul(FSub(row[i], m), FSub(row[i], m))]
    IN  FSqrt(Mean(sq))

(***************************************************************************)
(* PhaseNet.annotate_window_pre.                                           *)
(***************************************************************************)
\* window = window - np.mean(window, axis=-1, keepdims=True)
Demean(w) ==
    [ch \in DOMAIN w |-> [i \in DOMAIN w[ch] |-> FSub(w[ch][i], Mean(w[ch]))]]

\* std = np.std(window, axis=-1, keepdims=True); std[std == 0] = 1
Divisor_never_substituted(w) ==
    [ch \in DOMAIN w |-> Std(w[ch])]
Divisor(w) ==
    [ch \in DOMAIN w |-> IF Std(w[ch]) = 0 THEN 1 ELSE Std(w[ch])]

\* window = window / std; return window
annotate_window_pre(w) ==
    LET dm  == Demean(w)
        std == Divisor(dm)
    IN  [ch \in DOMAIN w |-> [i \in DOMAIN w[ch] |-> FDiv(dm[ch][i], std[ch])]]

Samples == {0, MaxSample}

PreInit ==
    /\ window \in [1..NCh -> [1..NSamp -> Samples]]
    /\ pre_out = <<>>
    /\ pre_pc = "window"

AnnotateWindowPre ==
    /\ pre_pc = "window"
    /\ pre_out' = annotate_window_pre(window)
    /\ pre_pc' = "pre"
    /\ UNCHANGED window
    /\ UNCHANGED <<netvars, convvars, pickvars>>

(***************************************************************************)
(* Text.  A Python str is the sequence of its code points, so that string  *)
(* formatting is concatenation and string comparison is lexicographic.     *)
(***************************************************************************)
N == <<78>>
P == <<80>>
S == <<83>>
Dot == <<46>>
PhaseNet_ == <<80, 104, 97, 115, 101, 78, 101, 116, 95>>
_threshold == <<95, 116, 104, 114, 101, 115, 104, 111, 108, 100>>

RECURSIVE StrLess(_, _)
\* a < b for two Python strings
StrLess(a, b) ==
    IF Len(b) = 0 THEN FALSE
    ELSE IF Len(a) = 0 THEN TRUE
    ELSE IF a[1] # b[1] THEN a[1] < b[1]
    ELSE StrLess(Tail(a), Tail(b))

RECURSIVE Flatten(_)
\* the concatenation of a sequence of lists
Flatten(ss) == IF Len(ss) = 0 THEN <<>> ELSE Head(ss) \o Flatten(Tail(ss))

(***************************************************************************)
(* Probabilities and thresholds are fixed-point numbers in units of 1/2000,*)
(* every threshold an even number of units, so that the halving of line 158*)
(* is exact as it is in binary floating point.  Times are whole seconds.   *)
(***************************************************************************)
DefaultThreshold == 600             \* 0.3
ThresholdValues  == {200}           \* 0.1

\* the probability curves of the model (0.0, 0.2 and 0.4): no trigger; two
\* triggers of one sample; one trigger that ends a sample after its onset;
\* one trigger still on at the end of the data
Signals ==
    { <<0, 0, 0, 0>>, <<800, 0, 800, 0>>, <<0, 800, 400, 0>>, <<400, 400, 800, 800>> }

(***************************************************************************)
(* obspy.signal.trigger.trigger_onset(charfct, thres1, thres2): the list   *)
(* of [on, off] sample indices (from 0).  A trigger starts at the first    *)
(* sample above thres1 and ends at the last sample of the run that stays   *)
(* above thres2; the end of the data ends an open trigger.                 *)
(***************************************************************************)
RECURSIVE Scan(_, _, _, _, _)
Scan(data, i, on, thres1, thres2) ==
    IF i > Len(data) THEN <<>>
    ELSE LET start == IF on >= 0 THEN on
                      ELSE IF data[i] > thres1 THEN i - 1 ELSE -1
             ends  == start >= 0 /\ (i = Len(data) \/ ~(data[i + 1] > thres2))
         IN  IF ends
             THEN <<(<<start, i - 1>>)>> \o Scan(data, i + 1, -1, thres1, thres2)
             ELSE Scan(data, i + 1, start, thres1, thres2)

trigger_onset(charfct, thres1, thres2) == Scan(charfct, 1, -1, thres1, thres2)

(***************************************************************************)
(* PhaseNet.classify_aggregate.                                            *)
(***************************************************************************)
\* annotations.select(channel=...)
Select(stream, channel) ==
    SelectSeq(stream, LAMBDA trace : trace.channel = channel)

\* trace.times(): the offset of every sample from the start time
times(trace) == [s \in 0..(Len(trace.data) - 1) |-> s * trace.delta]

\* for phase in self.labels: if phase == "N": continue
PickedPhases_noise_included(ls) == ls
PickedPhases(ls) == SelectSeq(ls, LAMBDA phase : phase # N)

\* pick_threshold = argdict.get(f"{phase}_threshold", 0.3)
pick_threshold(args, phase) ==
    IF (phase \o _threshold) \in DOMAIN args
    THEN args[phase \o _threshold]
    ELSE DefaultThreshold

\* triggers = trigger_onset(trace.data, pick_threshold, pick_threshold / 2)
TriggerCall_same_off_threshold(trace, phase, threshold) ==
    [ trace    |-> trace,
      phase    |-> phase,
      thres1   |-> threshold,
      thres2   |-> threshold,
      triggers |-> trigger_onset(trace.data, threshold, threshold) ]
TriggerCall(trace, phase, threshold) ==
    [ trace    |-> trace,
      phase    |-> phase,
      thres1   |-> threshold,
      thres2   |-> threshold \div 2,
      triggers |-> trigger_onset(trace.data, threshold, threshold \div 2) ]

\* trace_id = f"{trace.stats.network}.{trace.stats.station}.{trace.stats.location}"
trace_id(trace) ==
    trace.network \o Dot \o trace.station \o Dot \o trace.location

\* for s0, _ in triggers: t0 = trace.stats.starttime + times[s0];
\*                        picks.append((trace_id, t0, phase))
TracePicks_at_offset_sample(call) ==
    [k \in DOMAIN call.triggers |->
        <<trace_id(call.trace),
          call.trace.starttime + times(call.trace)[call.triggers[k][2]],
          call.phase>>]
TracePicks(call) ==
    [k \in DOMAIN call.triggers |->
        <<trace_id(call.trace),
          call.trace.starttime + times(call.trace)[call.triggers[k][1]],
          call.phase>>]

\* (trace_id, t0, phase) < (trace_id, t0, phase): Python's tuple comparison
PickLess(p, q) ==
    \/ StrLess(p[1], q[1])
    \/ p[1] = q[1] /\ p[2] < q[2]
    \/ p[1] = q[1] /\ p[2] = q[2] /\ StrLess(p[3], q[3])

RECURSIVE Insert(_, _)
\* e put behind the elements of a sorted list that are not greater than e
Insert(list, e) ==
    IF Len(list) = 0 THEN <<e>>
    ELSE IF PickLess(e, Head(list)) THEN <<e>> \o list
    ELSE <<Head(list)>> \o Insert(Tail(list), e)

RECURSIVE InsertionSort(_)
InsertionSort(list) ==
    IF Len(list) = 0 THEN <<>>
    ELSE Insert(InsertionSort(SubSeq(list, 1, Len(list) - 1)), list[Len(list)])

\* return sorted(picks)
sorted_not_applied(list) == list
sorted(list) == InsertionSort(list)

\* the calls of trigger_onset, in the order of the two loops
TriggerCalls(ls, stream, args) ==
    LET phases == PickedPhases(ls) IN
    Flatten([i \in DOMAIN phases |->
        LET sel == Select(stream, PhaseNet_ \o phases[i])
            thr == pick_threshold(args, phases[i])
        IN  [j \in DOMAIN sel |-> TriggerCall(sel[j], phases[i], thr)]])

classify_aggregate(ls, stream, args) ==
    LET cs == TriggerCalls(ls, stream, args) IN
    sorted(Flatten([i \in DOMAIN cs |-> TracePicks(cs[i])]))

Stations == {<<65>>, <<66>>}        \* "A", "B"

Traces ==
    [ network   : {<<78, 78>>},
      station   : Stations,
      location  : {<<>>},
      channel   : {PhaseNet_ \o N, PhaseNet_ \o P, PhaseNet_ \o S},
      starttime : {10},
      delta     : {1},
      data      : Signals ]

Streams == UNION {[1..n -> Traces] : n \in 0..MaxTraces}

\* the threshold configurations: any of the keys may be missing
ArgDicts ==
    UNION {[keys -> ThresholdValues] : keys \in SUBSET {P \o _threshold, S \o _threshold}}

PickInit ==
    /\ labels = <<N, P, S>>
    /\ annotations \in Streams
    /\ argdict \in ArgDicts
    /\ picks = <<>>
    /\ calls = <<>>
    /\ pick_pc = "called"

ClassifyAggregate ==
    /\ pick_pc = "called"
    /\ calls' = TriggerCalls(labels, annotations, argdict)
    /\ picks' = classify_aggregate(labels, annotations, argdict)
    /\ pick_pc' = "returned"
    /\ UNCHANGED <<labels, annotations, argdict>>
    /\ UNCHANGED <<netvars, convvars, prevars>>

(***************************************************************************)
(* Idle values of the parts a specification does not run.                  *)
(***************************************************************************)
PreIdle == window = <<>> /\ pre_out = <<>> /\ pre_pc = Idle

PickIdle ==
    /\ labels = <<>> /\ argdict = <<>> /\ annotations = <<>>
    /\ picks = <<>> /\ calls = <<>> /\ pick_pc = Idle

(***************************************************************************)
(* Specifications.                                                         *)
(***************************************************************************)
InitNet == NetInit /\ ConvIdle /\ PreIdle /\ PickIdle
NextNet == forward
SpecNet == InitNet /\ [][NextNet]_vars

InitConv == NetIdle /\ ConvInit /\ PreIdle /\ PickIdle
NextConv == ConvConstruct \/ ConvForward
SpecConv == InitConv /\ [][NextConv]_vars

InitPre == NetIdle /\ ConvIdle /\ PreInit /\ PickIdle
NextPre == AnnotateWindowPre
SpecPre == InitPre /\ [][NextPre]_vars

InitPick == NetIdle /\ ConvIdle /\ PreIdle /\ PickInit
NextPick == ClassifyAggregate
SpecPick == InitPick /\ [][NextPick]_vars

(***************************************************************************)
(* Properties of the forward pass (SpecNet).                               *)
(***************************************************************************)
ReferenceInput == input.c = in_channels /\ input.l = InSamples

\* C1: for a window of 3001 samples (and in_channels channels) the pass never
\* fails, the encoder lengths are 3001, 751, 188, 47, 12, every upsampled
\* tensor has the time length of the encoder tensor it is concatenated with,
\* and the returned tensor has time length 3001.
OutputLengthIsInputLength ==
    ReferenceInput =>
        /\ pc # "error"
        /\ x_in # Failed => x_in.l = InSamples
        /\ x1 # Failed => x1.l = 751
        /\ x2 # Failed => x2.l = 188
        /\ x3 # Failed => x3.l = 47
        /\ x4 # Failed => x4.l = 12
        /\ \A i \in DOMAIN cats : cats[i].up.l = cats[i].skip.l
        /\ pc = "done" => (Len(cats) = 4 /\ x.l = input.l)

ReferenceWindowReturned ==
    ReferenceInput /\ pc = "done" /\ x.l = InSamples /\ Len(cats) = 4

\* C6 as stated: a window whose channel count differs from in_channels or whose
\* time length differs from 3001 never makes forward return.
MalformedInputNeverReturns ==
    (input.c # in_channels \/ input.l # InSamples) => pc # "done"

\* the time lengths the strides and paddings reconcile: 256 m - 71, m >= 1
AcceptedLength(L) == (L + 71) % 256 = 0

\* C6 as amended: forward fails for a wrong channel count and for every time
\* length not of the form 256 m - 71; for the right channel count and a length
\* of that form (3001 = 256 * 12 - 71 is one, 185 and 3257 are others) it
\* returns, with an output of the input's length.
ForwardFailsExactlyOnIrreconcilableShapes ==
    /\ pc = "done" =>
          /\ input.c = in_channels
          /\ AcceptedLength(input.l)
          /\ x.l = input.l
    /\ pc = "error" => (input.c # in_channels \/ ~AcceptedLength(input.l))

WrongLengthFails ==
    pc = "error" /\ input.c = in_channels /\ input.l = InSamples - 1 /\ Len(cats) = 3

SkipOrder == <<"x3", "x2", "x1", "x_in">>

Retained(name) ==
    CASE name = "x3" -> x3 [] name = "x2" -> x2 [] name = "x1" -> x1
      [] name = "x_in" -> x_in

Consumer == <<up2, up3, up4, out>>

\* C10: the decoder stages concatenate with x3, x2, x1, x_in in that order; at
\* every stage the concatenated channel count (22+22, 16+16, 11+11, 8+8) is
\* the in_channels of the layer that consumes it (44, 32, 22, 16), and the
\* returned tensor has `classes` channels.
SkipChannelsMatchConsumers ==
    /\ Len(cats) <= 4
    /\ \A i \in DOMAIN cats :
          /\ cats[i].with = SkipOrder[i]
          /\ cats[i].skip = Retained(SkipOrder[i])
          /\ cats[i].up.c = cats[i].skip.c
          /\ cats[i].up.c + cats[i].skip.c = Consumer[i].in_channels
          /\ cats[i].up.c + cats[i].skip.c = <<44, 32, 22, 16>>[i]
    /\ pc \in {"up2", "up3", "up4", "out"} => x.c = Consumer[Len(cats)].in_channels
    /\ pc = "done" => (Len(cats) = 4 /\ x.c = classes)

AllFourStagesConcatenated ==
    pc = "done" /\ Len(cats) = 4 /\ cats[4].with = "x_in" /\ x.c = classes

(***************************************************************************)
(* Properties of Conv1dSame (SpecConv).                                    *)
(***************************************************************************)
\* C2: with stride = 1 the output of Conv1dSame.forward has the time length
\* of its input, for every kernel size and dilation.
UnitStridePreservesLength ==
    (conv_pc = "called" /\ conv.stride = 1) => conv_out = conv_in

(***************************************************************************)
(* Properties of annotate_window_pre (SpecPre).                            *)
(***************************************************************************)
IsConstant(row) == \A i, j \in DOMAIN row : row[i] = row[j]

SameShape(a, b) ==
    /\ DOMAIN a = DOMAIN b
    /\ \A ch \in DOMAIN a : DOMAIN a[ch] = DOMAIN b[ch]

\* the channels whose computed standard deviation is not zero are divided by it
DividedByOwnStd ==
    \A ch \in DOMAIN window :
        LET dm == Demean(window)[ch] IN
        Std(dm) # 0 =>
            \A i \in DOMAIN dm : pre_out[ch][i] = FDiv(dm[i], Std(dm))

\* C7 as stated: the result has the shape of the window, every channel whose
\* samples are all equal comes back all zeros, and the other channels are
\* divided by their own standard deviation.
ConstantChannelBecomesZeros ==
    pre_pc = "pre" =>
        /\ SameShape(pre_out, window)
        /\ \A ch \in DOMAIN window :
              IsConstant(window[ch]) => \A i \in DOMAIN window[ch] : pre_out[ch][i] = 0
        /\ DividedByOwnStd

\* C7 as amended: the result has the shape of the window and is finite; a
\* channel whose samples are all equal to c comes back constant, every sample
\* being the rounded difference of c and the computed mean of the channel,
\* which is zero when that mean is exactly c; the divisor is 1 exactly for
\* the channels whose computed standard deviation is zero, and every other
\* channel is divided by its own standard deviation.
ConstantChannelBecomesRoundingResidue ==
    pre_pc = "pre" =>
        /\ SameShape(pre_out, window)
        /\ \A ch \in DOMAIN pre_out : \A i \in DOMAIN pre_out[ch] :
              IsFinite(pre_out[ch][i])
        /\ \A ch \in DOMAIN window :
              IsConstant(window[ch]) =>
                 /\ IsConstant(pre_out[ch])
                 /\ \A i \in DOMAIN window[ch] :
                       pre_out[ch][i] = FSub(window[ch][i], Mean(window[ch]))
                 /\ Mean(window[ch]) = window[ch][1] =>
                       \A i \in DOMAIN window[ch] : pre_out[ch][i] = 0
        /\ \A ch \in DOMAIN window :
              Std(Demean(window)[ch]) = 0 => pre_out[ch] = Demean(window)[ch]
        /\ DividedByOwnStd

ConstantChannelBesideVaryingChannel ==
    /\ pre_pc = "pre"
    /\ \E ch, other \in DOMAIN window :
          /\ IsConstant(window[ch]) /\ window[ch][1] # 0
          /\ Std(Demean(window)[ch]) = 0
          /\ IsConstant(pre_out[ch])
          /\ Std(Demean(window)[other]) > 1
          /\ ~IsConstant(pre_out[other])

(***************************************************************************)
(* Properties of classify_aggregate (SpecPick).                            *)
(***************************************************************************)
IsSorted(list) ==
    \A i \in 1..(Len(list) - 1) : ~PickLess(list[i + 1], list[i])

\* the orders in which a sequence can be supplied
Orders(seq) ==
    {[i \in DOMAIN seq |-> seq[f[i]]] : f \in Permutations(DOMAIN seq)}

\* the picks in the order the two loops collect them
Collected == Flatten([i \in DOMAIN calls |-> TracePicks(calls[i])])

\* C3: the returned list is in non-decreasing order of (trace identity,
\* timestamp, phase label), and it is the same list in whatever order the
\* traces and the phase labels are supplied.
PicksSortedWhateverTheInputOrder ==
    pick_pc = "returned" =>
        /\ IsSorted(picks)
        /\ \A stream \in Orders(annotations) :
              classify_aggregate(labels, stream, argdict) = picks
        /\ \A ls \in Orders(labels) :
              classify_aggregate(ls, annotations, argdict) = picks

SortReordersThePicks ==
    /\ pick_pc = "returned"
    /\ Len(picks) >= 2
    /\ Collected # picks
    /\ \E i, j \in DOMAIN picks : picks[i][1] # picks[j][1]
    /\ \E i, j \in DOMAIN picks : picks[i][3] = P /\ picks[j][3] = S

\* C4: no returned pick carries the noise label, and no noise trace is given
\* to the trigger-onset primitive, whatever the thresholds.
NoisePhaseNeverPicked ==
    /\ \A i \in DOMAIN picks : picks[i][3] # N
    /\ \A i \in DOMAIN calls :
          calls[i].phase # N /\ calls[i].trace.channel # PhaseNet_ \o N

NoiseTraceAboveThreshold ==
    /\ pick_pc = "returned"
    /\ Len(picks) > 0
    /\ \E i \in DOMAIN annotations :
          /\ annotations[i].channel = PhaseNet_ \o N
          /\ \E s \in DOMAIN annotations[i].data :
                annotations[i].data[s] > DefaultThreshold

\* C5: the trigger-on threshold of every call of the primitive is the value
\* the configuration holds under '<phase>_threshold', or 0.3 when the key is
\* missing, and the trigger-off threshold is half of it.
ThresholdsResolvedPerPhase ==
    \A i \in DOMAIN calls :
        LET key == calls[i].phase \o _threshold IN
        /\ key \in DOMAIN argdict => calls[i].thres1 = argdict[key]
        /\ key \notin DOMAIN argdict => calls[i].thres1 = DefaultThreshold
        /\ 2 * calls[i].thres2 = calls[i].thres1

DefaultAndConfiguredThresholdUsed ==
    /\ pick_pc = "returned"
    /\ \E i, j \in DOMAIN calls :
          /\ (calls[i].phase \o _threshold) \notin DOMAIN argdict
          /\ calls[i].thres1 = 600 /\ calls[i].thres2 = 300
          /\ (calls[j].phase \o _threshold) \in DOMAIN argdict
          /\ calls[j].thres1 = 200 /\ calls[j].thres2 = 100

RECURSIVE TotalTriggers(_)
TotalTriggers(cs) ==
    IF Len(cs) = 0 THEN 0 ELSE Len(Head(cs).triggers) + TotalTriggers(Tail(cs))

Count(list, e) == Cardinality({i \in DOMAIN list : list[i] = e})

\* the pick of the k-th interval of a call: the trace start plus the offset
\* of the onset sample
OnsetPick(call, k) ==
    <<call.trace.network \o Dot \o call.trace.station \o Dot \o call.trace.location,
      call.trace.starttime + call.triggers[k][1] * call.trace.delta,
      call.phase>>

RECURSIVE OnsetPickCount(_, _)
OnsetPickCount(cs, p) ==
    IF Len(cs) = 0 THEN 0
    ELSE Cardinality({k \in DOMAIN Head(cs).triggers : OnsetPick(Head(cs), k) = p})
         + OnsetPickCount(Tail(cs), p)

NonNoiseChannels == {PhaseNet_ \o labels[i] : i \in {j \in DOMAIN labels : labels[j] # N}}

\* C9: every trace of a non-noise phase is given to the primitive once, and
\* the returned list holds one pick per interval the primitive returned, each
\* at the trace start plus the offset of the onset sample, none lost and none
\* merged.
OnePickPerTriggerInterval ==
    pick_pc = "returned" =>
        /\ \A i \in DOMAIN annotations :
              Count([j \in DOMAIN calls |-> calls[j].trace], annotations[i])
                = IF annotations[i].channel \in NonNoiseChannels
                  THEN Count(annotations, annotations[i]) ELSE 0
        /\ \A i \in DOMAIN calls :
              calls[i].triggers =
                 trigger_onset(calls[i].trace.data, calls[i].thres1, calls[i].thres2)
        /\ Len(picks) = TotalTriggers(calls)
        /\ \A i \in DOMAIN picks :
              Count(picks, picks[i]) = OnsetPickCount(calls, picks[i])

SeveralAndNoIntervals ==
    /\ pick_pc = "returned"
    /\ \E i, j \in DOMAIN calls :
          /\ Len(calls[i].triggers) = 2
          /\ Len(calls[j].triggers) = 0
    /\ Len(picks) = 2

=============================================================================
